---- MODULE Spec2Model ----
(***************************************************************************)
(* Model of the sidecar-injecting admission webhook                        *)
(* (pkg/webhook/webhook.go): the policy check mutationRequired, the patch  *)
(* builders, createPatch and the handler mutate, followed by the API       *)
(* server applying the returned JSON Patch to the submitted object and     *)
(* submitting the result again.                                            *)
(*                                                                         *)
(* Representation.                                                         *)
(*  - An annotation value, a profile name: a Go string, modelled as the    *)
(*    sequence of its characters, so that strings.ToLower is a map over    *)
(*    characters.                                                          *)
(*  - A JSON-Pointer path string: the sequence of its "/"-separated        *)
(*    segments, which is what the party that applies the patch sees.       *)
(*    fmt.Sprintf("%d") is ToString; string concatenation with a key is    *)
(*    concatenation with the key's own "/"-separated segments (KeySegs).   *)
(*  - A JSON array member: [present, items]; a Go slice: [isNil, items].   *)
(*  - A patch value (Go interface{}): a record tagged with its dynamic     *)
(*    type: array / elem / map / string.                                   *)
(***************************************************************************)
EXTENDS Integers, Sequences, FiniteSets, TLC

VARIABLES
    raw,        \* req.Object.Raw: the submitted pod document
    fault,      \* which library call of this request errors: none/unmarshal/marshal
    registry,   \* whs.sidecarConfigs
    pc,         \* position of the handler
    pod,        \* the decoded corev1.Pod
    required,   \* first result of mutationRequired
    mut,        \* second result of mutationRequired
    config,     \* the Config found in the registry
    response,   \* the AdmissionResponse returned by mutate
    lookups,    \* the keys whs.sidecarConfigs was indexed with in this call
    doc,        \* the document after the API server applied the patch
    applyOk,    \* whether the patch applied
    round,      \* 1: first admission, 2: admission of the patched pod
    peer        \* a second call of mutate, served concurrently: its request,
                \* position, locals and result

vars == <<raw, fault, registry, pc, pod, required, mut, config, response,
          lookups, doc, applyOk, round, peer>>

(***************************************************************************)
(* Bounds                                                                  *)
(***************************************************************************)
MaxContainers == 2
MaxProfileLen == 2

(***************************************************************************)
(* Strings                                                                 *)
(***************************************************************************)
UpperChars == <<"A","B","C","D","E","F","G","H","I","J","K","L","M",
                "N","O","P","Q","R","S","T","U","V","W","X","Y","Z">>
LowerChars == <<"a","b","c","d","e","f","g","h","i","j","k","l","m",
                "n","o","p","q","r","s","t","u","v","w","x","y","z">>

ToLowerChar(c) ==
    IF \E i \in 1..Len(UpperChars) : UpperChars[i] = c
    THEN LowerChars[CHOOSE i \in 1..Len(UpperChars) : UpperChars[i] = c]
    ELSE c

ToLowerSame(s) == s

\* strings.ToLower
ToLower(s) == [i \in 1..Len(s) |-> ToLowerChar(s[i])]

EmptyString == <<>>
Injected == <<"i","n","j","e","c","t","e","d">>

admissionWebhookAnnotationInjectKey == "simple-sidecar.centml.ai/inject"
admissionWebhookAnnotationStatusKey == "simple-sidecar.cemtml.ai/status"

ignoredNamespaces == <<"kube-system", "kube-public">>

\* The "/"-separated segments of an annotation key, as they appear once the
\* key is concatenated into a path string.
KeySegs(key) ==
    CASE key = admissionWebhookAnnotationInjectKey -> <<"simple-sidecar.centml.ai", "inject">>
      [] key = admissionWebhookAnnotationStatusKey -> <<"simple-sidecar.cemtml.ai", "status">>
      [] OTHER -> <<key>>

(***************************************************************************)
(* Documents, Go values                                                    *)
(***************************************************************************)
Absent == [present |-> FALSE, items |-> <<>>]
Arr(s) == [present |-> TRUE, items |-> s]

NoAnnotations == [present |-> FALSE, m |-> <<>>]
Annots(f) == [present |-> TRUE, m |-> f]

GoSlice(a) == [isNil |-> ~a.present, items |-> a.items]
GoMap(a) == [isNil |-> ~a.present, m |-> a.m]
GoContainer(c) ==
    [name |-> c.name, id |-> c.id, Env |-> GoSlice(c.env),
     VolumeMounts |-> GoSlice(c.volumeMounts)]

\* json.Unmarshal(req.Object.Raw, &pod), on the fields the handler reads
Unmarshal(d) ==
    [Namespace |-> d.metadata.namespace,
     Annotations |-> GoMap(d.metadata.annotations),
     Spec |-> [InitContainers |-> GoSlice(d.spec.initContainers),
               Containers |-> [isNil |-> ~d.spec.containers.present,
                               items |-> [i \in 1..Len(d.spec.containers.items) |->
                                            GoContainer(d.spec.containers.items[i])]],
               Volumes |-> GoSlice(d.spec.volumes)]]

ZeroPod ==
    [Namespace |-> "", Annotations |-> [isNil |-> TRUE, m |-> <<>>],
     Spec |-> [InitContainers |-> [isNil |-> TRUE, items |-> <<>>],
               Containers |-> [isNil |-> TRUE, items |-> <<>>],
               Volumes |-> [isNil |-> TRUE, items |-> <<>>]]]

ZeroConfig ==
    [InitContainers |-> <<>>, Containers |-> <<>>, Volumes |-> <<>>,
     EnvVars |-> <<>>, VolumeMounts |-> <<>>]

\* m[key] on a Go map: the zero value "" when the key is missing
MapIndex(m, key) == IF key \in DOMAIN m THEN m[key] ELSE EmptyString

(***************************************************************************)
(* mutationRequired                                                        *)
(***************************************************************************)
mutationRequiredNoIgnore(ignoredList, metadata) ==
    LET annotations == IF metadata.Annotations.isNil THEN <<>> ELSE metadata.Annotations.m
        status == MapIndex(annotations, admissionWebhookAnnotationStatusKey)
    IN  IF ToLower(status) = Injected
        THEN [required |-> FALSE, mut |-> EmptyString]
        ELSE IF admissionWebhookAnnotationInjectKey \in DOMAIN annotations
             THEN [required |-> TRUE, mut |-> annotations[admissionWebhookAnnotationInjectKey]]
             ELSE [required |-> FALSE, mut |-> EmptyString]

mutationRequiredNonEmptyName(ignoredList, metadata) ==
    IF \E i \in 1..Len(ignoredList) : metadata.Namespace = ignoredList[i]
    THEN [required |-> FALSE, mut |-> EmptyString]
    ELSE LET annotations == IF metadata.Annotations.isNil THEN <<>> ELSE metadata.Annotations.m
             status == MapIndex(annotations, admissionWebhookAnnotationStatusKey)
         IN  IF ToLower(status) = Injected
             THEN [required |-> FALSE, mut |-> EmptyString]
             ELSE IF MapIndex(annotations, admissionWebhookAnnotationInjectKey) # EmptyString
                  THEN [required |-> TRUE, mut |-> annotations[admissionWebhookAnnotationInjectKey]]
                  ELSE [required |-> FALSE, mut |-> EmptyString]

mutationRequired(ignoredList, metadata) ==
    IF \E i \in 1..Len(ignoredList) : metadata.Namespace = ignoredList[i]
    THEN [required |-> FALSE, mut |-> EmptyString]
    ELSE LET annotations == IF metadata.Annotations.isNil THEN <<>> ELSE metadata.Annotations.m
             status == MapIndex(annotations, admissionWebhookAnnotationStatusKey)
         IN  IF ToLower(status) = Injected
             THEN [required |-> FALSE, mut |-> EmptyString]
             ELSE IF admissionWebhookAnnotationInjectKey \in DOMAIN annotations
                  THEN [required |-> TRUE, mut |-> annotations[admissionWebhookAnnotationInjectKey]]
                  ELSE [required |-> FALSE, mut |-> EmptyString]

(***************************************************************************)
(* Patch builders                                                          *)
(***************************************************************************)
PatchOp(op, path, value) == [op |-> op, path |-> path, value |-> value]
ArrayValue(s) == [kind |-> "array", items |-> s]
ElemValue(x) == [kind |-> "elem", item |-> x]
MapValue(key, value) == [kind |-> "map", key |-> key, val |-> value]
StringValue(s) == [kind |-> "string", str |-> s]

addContainerWhole(target, added, basePath) ==
    IF Len(added) = 0 THEN <<>>
    ELSE IF Len(target) = 0
         THEN <<PatchOp("add", basePath, ArrayValue(added))>>
         ELSE [i \in 1..Len(added) |-> PatchOp("add", basePath \o <<"-">>, ElemValue(added[i]))]

\* The loop's flag "first" is true in iteration i iff the target is empty and i = 1.
addContainer(target, added, basePath) ==
    [i \in 1..Len(added) |->
        IF Len(target) = 0 /\ i = 1
        THEN PatchOp("add", basePath, ArrayValue(<<added[i]>>))
        ELSE PatchOp("add", basePath \o <<"-">>, ElemValue(added[i]))]

addVolumeFirstNeverCleared(target, added, basePath) ==
    [i \in 1..Len(added) |->
        IF Len(target) = 0
        THEN PatchOp("add", basePath, ArrayValue(<<added[i]>>))
        ELSE PatchOp("add", basePath \o <<"-">>, ElemValue(added[i]))]

addVolume(target, added, basePath) ==
    [i \in 1..Len(added) |->
        IF Len(target) = 0 /\ i = 1
        THEN PatchOp("add", basePath, ArrayValue(<<added[i]>>))
        ELSE PatchOp("add", basePath \o <<"-">>, ElemValue(added[i]))]

RECURSIVE updateAnnotationByPresence(_, _)
updateAnnotationByPresence(target, added) ==
    IF added = <<>> THEN <<>>
    ELSE LET key == Head(added)[1]
             value == Head(added)[2]
         IN  IF target.isNil \/ key \notin DOMAIN target.m
             THEN <<PatchOp("add", <<"metadata", "annotations">>, MapValue(key, value))>>
                  \o updateAnnotationByPresence([isNil |-> FALSE, m |-> <<>>], Tail(added))
             ELSE <<PatchOp("replace", <<"metadata", "annotations">> \o KeySegs(key),
                            StringValue(value))>>
                  \o updateAnnotationByPresence(target, Tail(added))

\* added: the map's entries in iteration order, each <<key, value>>.
\* target is the function's local variable: [isNil, m].
RECURSIVE updateAnnotation(_, _)
updateAnnotation(target, added) ==
    IF added = <<>> THEN <<>>
    ELSE LET key == Head(added)[1]
             value == Head(added)[2]
         IN  IF target.isNil \/ MapIndex(target.m, key) = EmptyString
             THEN <<PatchOp("add", <<"metadata", "annotations">>, MapValue(key, value))>>
                  \o updateAnnotation([isNil |-> FALSE, m |-> <<>>], Tail(added))
             ELSE <<PatchOp("replace", <<"metadata", "annotations">> \o KeySegs(key),
                            StringValue(value))>>
                  \o updateAnnotation(target, Tail(added))

addVolumeMountsMountMajor(p, vms) ==
    LET n == Len(p.Spec.Containers.items)
        m == Len(vms)
    IN  [k \in 1..(n * m) |->
            PatchOp("add",
                    <<"spec", "containers", ToString((k - 1) % n), "volumeMounts", "-">>,
                    ElemValue(vms[((k - 1) \div n) + 1]))]

addVolumeMounts(p, vms) ==
    LET n == Len(p.Spec.Containers.items)
        m == Len(vms)
    IN  [k \in 1..(n * m) |->
            PatchOp("add",
                    <<"spec", "containers", ToString((k - 1) \div m), "volumeMounts", "-">>,
                    ElemValue(vms[((k - 1) % m) + 1]))]

RECURSIVE addEnvVarsFrom(_, _, _)
addEnvVarsFrom(p, envVars, i) ==
    IF i >= Len(p.Spec.Containers.items) THEN <<>>
    ELSE (IF p.Spec.Containers.items[i + 1].Env.isNil
          THEN <<PatchOp("add", <<"spec", "containers", ToString(i), "env">>, ArrayValue(<<>>))>>
          ELSE <<>>)
         \o [j \in 1..Len(envVars) |->
                PatchOp("add", <<"spec", "containers", ToString(i), "env", "-">>,
                        ElemValue(envVars[j]))]
         \o addEnvVarsFrom(p, envVars, i + 1)

addEnvVarsNoShortCircuit(p, envVars) == addEnvVarsFrom(p, envVars, 0)

addEnvVars(p, envVars) ==
    IF Len(envVars) = 0 THEN <<>> ELSE addEnvVarsFrom(p, envVars, 0)

createPatchAnnotationFirst(p, sidecarConfig, annotations) ==
    updateAnnotation(p.Annotations, annotations)
    \o addVolumeMounts(p, sidecarConfig.VolumeMounts)
    \o addEnvVars(p, sidecarConfig.EnvVars)
    \o addContainer(p.Spec.InitContainers.items, sidecarConfig.InitContainers, <<"spec", "initContainers">>)
    \o addContainer(p.Spec.Containers.items, sidecarConfig.Containers, <<"spec", "containers">>)
    \o addVolume(p.Spec.Volumes.items, sidecarConfig.Volumes, <<"spec", "volumes">>)

createPatchNothingForEmptyProfile(p, sidecarConfig, annotations) ==
    IF sidecarConfig = ZeroConfig THEN <<>>
    ELSE addVolumeMounts(p, sidecarConfig.VolumeMounts)
         \o addEnvVars(p, sidecarConfig.EnvVars)
         \o addContainer(p.Spec.InitContainers.items, sidecarConfig.InitContainers, <<"spec", "initContainers">>)
         \o addContainer(p.Spec.Containers.items, sidecarConfig.Containers, <<"spec", "containers">>)
         \o addVolume(p.Spec.Volumes.items, sidecarConfig.Volumes, <<"spec", "volumes">>)
         \o updateAnnotation(p.Annotations, annotations)

\* The operations createPatch serializes (its error results are the handler's
\* fault = "marshal" branch).
createPatch(p, sidecarConfig, annotations) ==
    addVolumeMounts(p, sidecarConfig.VolumeMounts)
    \o addEnvVars(p, sidecarConfig.EnvVars)
    \o addContainer(p.Spec.InitContainers.items, sidecarConfig.InitContainers, <<"spec", "initContainers">>)
    \o addContainer(p.Spec.Containers.items, sidecarConfig.Containers, <<"spec", "containers">>)
    \o addVolume(p.Spec.Volumes.items, sidecarConfig.Volumes, <<"spec", "volumes">>)
    \o updateAnnotation(p.Annotations, annotations)

(***************************************************************************)
(* Responses of mutate                                                     *)
(***************************************************************************)
NoResponse == [Allowed |-> FALSE, HasPatch |-> FALSE, Patch |-> <<>>, HasResult |-> FALSE]

\* &AdmissionResponse{Result: &metav1.Status{Message: err.Error()}}
ErrorResponse == [Allowed |-> FALSE, HasPatch |-> FALSE, Patch |-> <<>>, HasResult |-> TRUE]

\* &AdmissionResponse{Allowed: true}
AllowResponse == [Allowed |-> TRUE, HasPatch |-> FALSE, Patch |-> <<>>, HasResult |-> FALSE]

PolicySkipResponse == AllowResponse

MissingConfigDenied == ErrorResponse

MissingConfigResponse == AllowResponse

PatchResponse(patchBytes) ==
    [Allowed |-> TRUE, HasPatch |-> TRUE, Patch |-> patchBytes, HasResult |-> FALSE]

LookupFolded(sidecarConfigs, key) ==
    IF \E k \in DOMAIN sidecarConfigs : ToLower(k) = ToLower(key)
    THEN [ok |-> TRUE,
          config |-> sidecarConfigs[CHOOSE k \in DOMAIN sidecarConfigs : ToLower(k) = ToLower(key)]]
    ELSE [ok |-> FALSE, config |-> ZeroConfig]

\* config, ok := whs.sidecarConfigs[mut]
Lookup(sidecarConfigs, key) ==
    IF key \in DOMAIN sidecarConfigs
    THEN [ok |-> TRUE, config |-> sidecarConfigs[key]]
    ELSE [ok |-> FALSE, config |-> ZeroConfig]

(***************************************************************************)
(* The API server applying the returned patch (PatchType JSONPatch,        *)
(* RFC 6902) to the submitted document.  An operation whose target         *)
(* location does not exist fails, and then the whole patch fails.          *)
(***************************************************************************)
ArrayFields == {"initContainers", "containers", "volumes"}
ContainerFields == {"env", "volumeMounts"}

\* The array index a path segment denotes in an array of n elements, or -1.
IndexOf(seg, n) ==
    IF \E i \in 0..(n - 1) : ToString(i) = seg
    THEN CHOOSE i \in 0..(n - 1) : ToString(i) = seg
    ELSE -1

\* A container as it is serialized into the document.
DocContainer(c) ==
    [name |-> c.name, id |-> c.id,
     env |-> IF Len(c.Env.items) = 0 THEN Absent ELSE Arr(c.Env.items),
     volumeMounts |-> IF Len(c.VolumeMounts.items) = 0 THEN Absent ELSE Arr(c.VolumeMounts.items)]

DocElem(field, x) == IF field \in {"initContainers", "containers"} THEN DocContainer(x) ELSE x

ApplyFailed(d) == [ok |-> FALSE, doc |-> d]
Applied(d) == [ok |-> TRUE, doc |-> d]

\* /spec/<field> and /spec/<field>/-
ApplySpecArray(d, o) ==
    LET p == o.path
        f == p[2]
        cur == d.spec[f]
    IN  IF Len(p) = 2
        THEN IF o.value.kind = "array" /\ (o.op = "add" \/ cur.present)
             THEN Applied([d EXCEPT !.spec[f] =
                     Arr([i \in 1..Len(o.value.items) |-> DocElem(f, o.value.items[i])])])
             ELSE ApplyFailed(d)
        ELSE IF Len(p) = 3 /\ p[3] = "-" /\ o.op = "add" /\ cur.present /\ o.value.kind = "elem"
             THEN Applied([d EXCEPT !.spec[f] = Arr(Append(cur.items, DocElem(f, o.value.item)))])
             ELSE ApplyFailed(d)

\* /spec/containers/<i>/<member> and /spec/containers/<i>/<member>/-
ApplyContainerMember(d, o) ==
    LET p == o.path
        cs == d.spec.containers
        i == IndexOf(p[3], Len(cs.items))
        f == p[4]
    IN  IF ~cs.present \/ i < 0 \/ f \notin ContainerFields
        THEN ApplyFailed(d)
        ELSE LET cur == cs.items[i + 1][f]
             IN  IF Len(p) = 4
                 THEN IF o.value.kind = "array" /\ (o.op = "add" \/ cur.present)
                      THEN Applied([d EXCEPT !.spec.containers.items[i + 1][f] = Arr(o.value.items)])
                      ELSE ApplyFailed(d)
                 ELSE IF Len(p) = 5 /\ p[5] = "-" /\ o.op = "add" /\ cur.present
                         /\ o.value.kind = "elem"
                      THEN Applied([d EXCEPT !.spec.containers.items[i + 1][f] =
                                        Arr(Append(cur.items, o.value.item))])
                      ELSE ApplyFailed(d)

\* /metadata/annotations and below.  A member is addressed by one path
\* segment; annotation values are strings, so nothing exists below a member.
ApplyAnnotations(d, o) ==
    LET p == o.path
        cur == d.metadata.annotations
    IN  IF Len(p) = 2
        THEN IF o.value.kind = "map" /\ (o.op = "add" \/ cur.present)
             THEN Applied([d EXCEPT !.metadata.annotations = Annots(o.value.key :> o.value.val)])
             ELSE ApplyFailed(d)
        ELSE IF Len(p) = 3 /\ cur.present /\ o.value.kind = "string"
                /\ (o.op = "add" \/ p[3] \in DOMAIN cur.m)
             THEN Applied([d EXCEPT !.metadata.annotations =
                               Annots((p[3] :> o.value.str) @@ cur.m)])
             ELSE ApplyFailed(d)

ApplyOp(d, o) ==
    LET p == o.path
    IN  IF Len(p) >= 2 /\ p[1] = "spec" /\ p[2] \in ArrayFields /\ Len(p) <= 3
           /\ (Len(p) = 3 => p[3] = "-")
        THEN ApplySpecArray(d, o)
        ELSE IF Len(p) >= 4 /\ p[1] = "spec" /\ p[2] = "containers"
             THEN ApplyContainerMember(d, o)
             ELSE IF Len(p) >= 2 /\ p[1] = "metadata" /\ p[2] = "annotations"
                  THEN ApplyAnnotations(d, o)
                  ELSE ApplyFailed(d)

\* The result of applying the first k operations of ops, in order; once an
\* operation has failed the rest are not applied.
RECURSIVE ApplyPrefix(_, _, _)
ApplyPrefix(d, ops, k) ==
    IF k = 0 THEN Applied(d)
    ELSE LET before == ApplyPrefix(d, ops, k - 1)
         IN  IF before.ok THEN ApplyOp(before.doc, ops[k]) ELSE before

\* JSON Patch is atomic: a failed patch leaves the document as submitted.
ApplyPatch(d, ops) ==
    LET r == ApplyPrefix(d, ops, Len(ops))
    IN  IF r.ok THEN r ELSE ApplyFailed(d)

(***************************************************************************)
(* Inputs                                                                  *)
(***************************************************************************)
Web == <<"w","e","b">>
WebCapital == <<"W","e","b">>
InjectedMixed == <<"I","n","j","e","c","t","e","d">>
InjectedUpper == <<"I","N","J","E","C","T","E","D">>
Pending == <<"p","e","n","d","i","n","g">>
OtherKey == "team"
OtherValue == <<"a">>

Namespaces == {"default", "kube-system", "kube-public"}

\* A choice for one annotation: missing, or present with a value.
Missing == [has |-> FALSE, v |-> EmptyString]
Has(v) == [has |-> TRUE, v |-> v]
Entry(key, c) == IF c.has THEN key :> c.v ELSE <<>>

AnnotationsOf(inj, st, oth) ==
    Annots(Entry(admissionWebhookAnnotationInjectKey, inj)
           @@ Entry(admissionWebhookAnnotationStatusKey, st)
           @@ Entry(OtherKey, oth))

InjectChoices == {Missing, Has(Web), Has(WebCapital), Has(EmptyString)}
StatusChoices == {Missing, Has(EmptyString), Has(Injected), Has(InjectedMixed),
                  Has(InjectedUpper), Has(Pending)}
OtherChoices == {Missing, Has(OtherValue)}

AllAnnotations ==
    {NoAnnotations} \cup
    {AnnotationsOf(inj, st, oth) : inj \in InjectChoices, st \in StatusChoices, oth \in OtherChoices}

\* Annotations that request profile "web" on a pod not marked injected.
RequestingAnnotations ==
    {AnnotationsOf(Has(Web), st, oth) :
        st \in {Missing, Has(EmptyString), Has(Pending)}, oth \in OtherChoices}

Elem(name, i) == [name |-> name, id |-> i]

ContainerShapes ==
    {[env |-> e, volumeMounts |-> v] :
        e \in {Absent, Arr(<<Elem("OLD_ENV", 1)>>)},
        v \in {Absent, Arr(<<Elem("old-mount", 1)>>)}}

ContainersOf(shapes) ==
    IF Len(shapes) = 0 THEN Absent
    ELSE Arr([i \in 1..Len(shapes) |->
                [name |-> "app", id |-> i, env |-> shapes[i].env,
                 volumeMounts |-> shapes[i].volumeMounts]])

ContainerArrays ==
    {ContainersOf(shapes) : shapes \in UNION {[1..n -> ContainerShapes] : n \in 0..MaxContainers}}

ExistingInit ==
    {Absent, Arr(<<[name |-> "init-old", id |-> 1, env |-> Absent, volumeMounts |-> Absent]>>)}
ExistingVolumes == {Absent, Arr(<<Elem("vol-old", 1)>>)}

PodDoc(ns, ann, ini, cs, vols) ==
    [metadata |-> [namespace |-> ns, annotations |-> ann],
     spec |-> [initContainers |-> ini, containers |-> cs, volumes |-> vols]]

NilSlice == [isNil |-> TRUE, items |-> <<>>]
ProfileContainer(name, i) ==
    [name |-> name, id |-> i, Env |-> NilSlice, VolumeMounts |-> NilSlice]

\* The Config whose five lists have the given lengths.
ConfigOf(ni, nc, nv, ne, nm) ==
    [InitContainers |-> [i \in 1..ni |-> ProfileContainer("init-sidecar", i)],
     Containers |-> [i \in 1..nc |-> ProfileContainer("sidecar", i)],
     Volumes |-> [i \in 1..nv |-> Elem("vol", i)],
     EnvVars |-> [i \in 1..ne |-> Elem("ENV", i)],
     VolumeMounts |-> [i \in 1..nm |-> Elem("mount", i)]]

\* Profiles: all five lists of one length, or one list alone non-empty.
Profiles ==
    {ConfigOf(n, n, n, n, n) : n \in 0..MaxProfileLen} \cup
    UNION {{ConfigOf(n, 0, 0, 0, 0), ConfigOf(0, n, 0, 0, 0), ConfigOf(0, 0, n, 0, 0),
            ConfigOf(0, 0, 0, n, 0), ConfigOf(0, 0, 0, 0, n)} : n \in 1..MaxProfileLen}

PlainPod(ns, ann) ==
    PodDoc(ns, ann, Absent,
           ContainersOf(<<[env |-> Arr(<<Elem("OLD_ENV", 1)>>),
                           volumeMounts |-> Arr(<<Elem("old-mount", 1)>>)]>>),
           Absent)

PlainRegistries ==
    {<<>>, Web :> ConfigOf(1, 1, 1, 1, 1),
     (Web :> ConfigOf(1, 1, 1, 1, 1)) @@ (EmptyString :> ConfigOf(0, 1, 0, 0, 0))}

Faults == {"none", "unmarshal", "marshal"}

\* Every namespace, annotation state, registry and fault, on one pod shape.
PolicyInputs ==
    {[raw |-> PlainPod(ns, ann), registry |-> reg, fault |-> f] :
        ns \in Namespaces, ann \in AllAnnotations, reg \in PlainRegistries, f \in Faults}

\* Every pod shape and profile, on the requests that reach createPatch.
PatchInputs ==
    {[raw |-> PodDoc("default", ann, ini, cs, vols), registry |-> Web :> prof, fault |-> "none"] :
        ann \in RequestingAnnotations, ini \in ExistingInit, cs \in ContainerArrays,
        vols \in ExistingVolumes, prof \in Profiles}

(***************************************************************************)
(* The handler mutate, step by step, and its environment                   *)
(***************************************************************************)
\* No second call is being served.
NoPeer ==
    [raw |-> PlainPod("default", NoAnnotations), fault |-> "none", pc |-> "idle",
     pod |-> ZeroPod, required |-> FALSE, mut |-> EmptyString, config |-> ZeroConfig,
     response |-> NoResponse, lookups |-> {}]

Fresh ==
    /\ pc = "recv"
    /\ pod = ZeroPod
    /\ required = FALSE
    /\ mut = EmptyString
    /\ config = ZeroConfig
    /\ response = NoResponse
    /\ lookups = {}
    /\ applyOk = FALSE

Init ==
    /\ \E in \in PolicyInputs \cup PatchInputs :
          /\ raw = in.raw
          /\ registry = in.registry
          /\ fault = in.fault
    /\ doc = raw
    /\ round = 1
    /\ Fresh
    /\ peer = NoPeer

\* json.Unmarshal of the request's object
Decode ==
    /\ pc = "recv"
    /\ IF fault = "unmarshal"
       THEN /\ response' = ErrorResponse
            /\ pc' = "done"
            /\ pod' = pod
       ELSE /\ pod' = Unmarshal(raw)
            /\ pc' = "policy"
            /\ response' = response
    /\ UNCHANGED <<raw, fault, registry, required, mut, config, lookups, doc, applyOk, round, peer>>

\* required, mut := whs.mutationRequired(ignoredNamespaces, &pod.ObjectMeta)
Policy ==
    /\ pc = "policy"
    /\ LET r == mutationRequired(ignoredNamespaces, pod)
       IN  /\ required' = r.required
           /\ mut' = r.mut
           /\ IF ~r.required
              THEN response' = PolicySkipResponse /\ pc' = "done"
              ELSE response' = response /\ pc' = "lookup"
    /\ UNCHANGED <<raw, fault, registry, pod, config, lookups, doc, applyOk, round, peer>>

LookupConfigRemembersMissing ==
    /\ pc = "lookup"
    /\ lookups' = lookups \cup {mut}
    /\ LET r == Lookup(registry, mut)
       IN  IF ~r.ok
           THEN /\ response' = MissingConfigResponse /\ pc' = "done" /\ config' = config
                /\ registry' = (mut :> ZeroConfig) @@ registry
           ELSE /\ response' = response /\ pc' = "patch" /\ config' = r.config
                /\ registry' = registry
    /\ UNCHANGED <<raw, fault, pod, required, mut, doc, applyOk, round, peer>>

\* config, ok := whs.sidecarConfigs[mut]
LookupConfig ==
    /\ pc = "lookup"
    /\ lookups' = lookups \cup {mut}
    /\ LET r == Lookup(registry, mut)
       IN  IF ~r.ok
           THEN response' = MissingConfigResponse /\ pc' = "done" /\ config' = config
           ELSE response' = response /\ pc' = "patch" /\ config' = r.config
    /\ UNCHANGED <<raw, fault, registry, pod, required, mut, doc, applyOk, round, peer>>

\* createPatch with the status annotation, and the response built from it
BuildPatch ==
    /\ pc = "patch"
    /\ LET annotations == << <<admissionWebhookAnnotationStatusKey, Injected>> >>
       IN  IF fault = "marshal"
           THEN response' = ErrorResponse
           ELSE response' = PatchResponse(createPatch(pod, config, annotations))
    /\ pc' = "done"
    /\ UNCHANGED <<raw, fault, registry, pod, required, mut, config, lookups, doc, applyOk, round, peer>>

\* The API server applies the returned patch to the submitted object.
Apply ==
    /\ pc = "done"
    /\ round = 1
    /\ response.HasPatch
    /\ LET r == ApplyPatch(raw, response.Patch)
       IN  doc' = r.doc /\ applyOk' = r.ok
    /\ pc' = "applied"
    /\ UNCHANGED <<raw, fault, registry, pod, required, mut, config, response, lookups, round, peer>>

\* The patched pod is submitted for admission again.
Resubmit ==
    /\ pc = "applied"
    /\ applyOk
    /\ raw' = doc
    /\ round' = 2
    /\ pc' = "recv"
    /\ pod' = ZeroPod
    /\ required' = FALSE
    /\ mut' = EmptyString
    /\ config' = ZeroConfig
    /\ response' = NoResponse
    /\ lookups' = {}
    /\ UNCHANGED <<fault, registry, doc, applyOk, peer>>

Next == Decode \/ Policy \/ LookupConfig \/ BuildPatch \/ Apply \/ Resubmit

Spec == Init /\ [][Next]_vars

\* The requests of PolicyInputs alone: every annotation state on one pod shape.
InitPolicy ==
    /\ \E in \in PolicyInputs :
          /\ raw = in.raw
          /\ registry = in.registry
          /\ fault = in.fault
    /\ doc = raw
    /\ round = 1
    /\ Fresh
    /\ peer = NoPeer

SpecPolicy == InitPolicy /\ [][Next]_vars

(***************************************************************************)
(* Two calls of mutate served at once.  net/http runs each request's       *)
(* handler in its own goroutine; the two calls share the server's          *)
(* sidecarConfigs and the package's ignoredNamespaces, and each has its    *)
(* own request and locals.  The steps of the two calls interleave freely.  *)
(***************************************************************************)

\* mutate run from start to end with nothing else running.
mutate(req, sidecarConfigs, f) ==
    IF f = "unmarshal" THEN ErrorResponse
    ELSE LET p == Unmarshal(req)
             r == mutationRequired(ignoredNamespaces, p)
             l == Lookup(sidecarConfigs, r.mut)
             annotations == << <<admissionWebhookAnnotationStatusKey, Injected>> >>
         IN  IF ~r.required THEN PolicySkipResponse
             ELSE IF ~l.ok THEN MissingConfigResponse
             ELSE IF f = "marshal" THEN ErrorResponse
             ELSE PatchResponse(createPatch(p, l.config, annotations))

\* json.Unmarshal of the second request's object
PeerDecode ==
    /\ peer.pc = "recv"
    /\ peer' = IF peer.fault = "unmarshal"
               THEN [peer EXCEPT !.response = ErrorResponse, !.pc = "done"]
               ELSE [peer EXCEPT !.pod = Unmarshal(peer.raw), !.pc = "policy"]
    /\ UNCHANGED <<raw, fault, registry, pc, pod, required, mut, config, response,
                   lookups, doc, applyOk, round>>

\* required, mut := whs.mutationRequired(ignoredNamespaces, &pod.ObjectMeta)
PeerPolicy ==
    /\ peer.pc = "policy"
    /\ LET r == mutationRequired(ignoredNamespaces, peer.pod)
       IN  peer' = IF ~r.required
                   THEN [peer EXCEPT !.required = r.required, !.mut = r.mut,
                                     !.response = PolicySkipResponse, !.pc = "done"]
                   ELSE [peer EXCEPT !.required = r.required, !.mut = r.mut,
                                     !.pc = "lookup"]
    /\ UNCHANGED <<raw, fault, registry, pc, pod, required, mut, config, response,
                   lookups, doc, applyOk, round>>

\* config, ok := whs.sidecarConfigs[mut]
PeerLookupConfig ==
    /\ peer.pc = "lookup"
    /\ LET r == Lookup(registry, peer.mut)
       IN  peer' = IF ~r.ok
                   THEN [peer EXCEPT !.lookups = peer.lookups \cup {peer.mut},
                                     !.response = MissingConfigResponse, !.pc = "done"]
                   ELSE [peer EXCEPT !.lookups = peer.lookups \cup {peer.mut},
                                     !.config = r.config, !.pc = "patch"]
    /\ UNCHANGED <<raw, fault, registry, pc, pod, required, mut, config, response,
                   lookups, doc, applyOk, round>>

\* createPatch with the status annotation, and the response built from it
PeerBuildPatch ==
    /\ peer.pc = "patch"
    /\ LET annotations == << <<admissionWebhookAnnotationStatusKey, Injected>> >>
       IN  peer' = IF peer.fault = "marshal"
                   THEN [peer EXCEPT !.response = ErrorResponse, !.pc = "done"]
                   ELSE [peer EXCEPT
                            !.response = PatchResponse(createPatch(peer.pod, peer.config, annotations)),
                            !.pc = "done"]
    /\ UNCHANGED <<raw, fault, registry, pc, pod, required, mut, config, response,
                   lookups, doc, applyOk, round>>

\* The requests served at once: each namespace kind, each policy outcome.
ConcurrentAnnotations ==
    {NoAnnotations,
     AnnotationsOf(Has(Web), Missing, Missing),
     AnnotationsOf(Has(Web), Has(Pending), Has(OtherValue)),
     AnnotationsOf(Has(WebCapital), Missing, Has(OtherValue)),
     AnnotationsOf(Has(EmptyString), Missing, Missing),
     AnnotationsOf(Has(Web), Has(InjectedMixed), Missing)}

ConcurrentRequests ==
    {[raw |-> PlainPod(ns, ann), fault |-> f] :
        ns \in {"default", "kube-system"}, ann \in ConcurrentAnnotations, f \in Faults}

InitConcurrent ==
    /\ \E a \in ConcurrentRequests, b \in ConcurrentRequests :
          /\ raw = a.raw
          /\ fault = a.fault
          /\ peer = [NoPeer EXCEPT !.raw = b.raw, !.fault = b.fault, !.pc = "recv"]
    /\ registry \in PlainRegistries
    /\ doc = raw
    /\ round = 1
    /\ Fresh

NextConcurrent ==
    Next \/ PeerDecode \/ PeerPolicy \/ PeerLookupConfig \/ PeerBuildPatch

SpecConcurrent == InitConcurrent /\ [][NextConcurrent]_vars

(***************************************************************************)
(* Vocabulary of the properties                                            *)
(***************************************************************************)
Returned == pc \in {"done", "applied"}
Decoded == fault # "unmarshal"
AllowNoPatch == response.Allowed /\ ~response.HasPatch /\ response.Patch = <<>> /\ ~response.HasResult
AllowWithPatch == response.Allowed /\ response.HasPatch
Denied == ~response.Allowed

HasAnnotation(d, key) == d.metadata.annotations.present /\ key \in DOMAIN d.metadata.annotations.m
AnnotationOf(d, key) == d.metadata.annotations.m[key]

CaseEqualChar(a, b) ==
    a = b \/ \E i \in 1..Len(UpperChars) : {a, b} = {UpperChars[i], LowerChars[i]}
EqualFold(s, t) == Len(s) = Len(t) /\ \A i \in 1..Len(s) : CaseEqualChar(s[i], t[i])

MarkedInjected(d) ==
    HasAnnotation(d, admissionWebhookAnnotationStatusKey)
    /\ EqualFold(AnnotationOf(d, admissionWebhookAnnotationStatusKey), Injected)
InIgnoredNamespace(d) == d.metadata.namespace \in {"kube-system", "kube-public"}
RequestsProfile(d) == HasAnnotation(d, admissionWebhookAnnotationInjectKey)
RequestedProfile(d) == AnnotationOf(d, admissionWebhookAnnotationInjectKey)

\* C1: a pod in kube-system or kube-public is allowed without a patch,
\* whatever its annotations and whatever the registry holds.
C1_IgnoredNamespaceAllowed ==
    (Returned /\ Decoded /\ InIgnoredNamespace(raw)) => AllowNoPatch

C1_Witness ==
    /\ pc = "done" /\ Decoded
    /\ raw.metadata.namespace = "kube-system"
    /\ RequestsProfile(raw) /\ RequestedProfile(raw) \in DOMAIN registry
    /\ ~HasAnnotation(raw, admissionWebhookAnnotationStatusKey)
    /\ AllowNoPatch

\* C2: a pod whose status annotation equals "injected" up to letter case is
\* allowed without a patch, also when it requests a profile the registry holds.
C2_AlreadyInjectedAllowed ==
    (Returned /\ Decoded /\ MarkedInjected(raw)) => AllowNoPatch

C2_Witness ==
    /\ pc = "done" /\ Decoded /\ round = 1
    /\ raw.metadata.namespace = "default"
    /\ HasAnnotation(raw, admissionWebhookAnnotationStatusKey)
    /\ AnnotationOf(raw, admissionWebhookAnnotationStatusKey) = InjectedMixed
    /\ RequestsProfile(raw) /\ RequestedProfile(raw) \in DOMAIN registry
    /\ AllowNoPatch

\* C3: whenever mutate returns a patch, the patch applies to the submitted pod,
\* the resulting pod is marked "injected", and admitting the resulting pod
\* again is allowed without a patch.
C3_PatchedPodIsNotMutatedAgain ==
    /\ (pc = "applied" => (applyOk /\ MarkedInjected(doc)))
    /\ ((round = 2 /\ pc = "done") => AllowNoPatch)

\* C5: applying the patch keeps every annotation other than the status key,
\* with its value; in particular the inject-request annotation survives.
C5_OtherAnnotationsKept ==
    (pc = "applied" /\ applyOk) =>
        \A key \in DOMAIN raw.metadata.annotations.m \ {admissionWebhookAnnotationStatusKey} :
            /\ HasAnnotation(doc, key)
            /\ AnnotationOf(doc, key) = AnnotationOf(raw, key)

\* The patch of the first admission, once mutate has returned it.
PatchReturned == Returned /\ round = 1 /\ response.HasPatch
ThePatch == response.Patch

\* C6: every operation of the patch, applied after the ones before it,
\* addresses a location that exists at that point, and an operation on
\* /spec/<array> carries a whole array exactly when the array is absent then.
C6_EveryOperationApplies ==
    PatchReturned =>
        \A k \in 1..Len(ThePatch) :
            LET before == ApplyPrefix(raw, ThePatch, k - 1)
                o == ThePatch[k]
            IN  /\ before.ok
                /\ ApplyOp(before.doc, o).ok
                /\ (o.path[1] = "spec" /\ Len(o.path) <= 3) =>
                       ((o.value.kind = "array") <=> ~before.doc.spec[o.path[2]].present)

(***************************************************************************)
(* Reading a returned patch                                                *)
(***************************************************************************)
\* The three insertion targets: path member, list found in the pod, list of
\* the profile.
ExistingOf(f) ==
    CASE f = "initContainers" -> pod.Spec.InitContainers.items
      [] f = "containers" -> pod.Spec.Containers.items
      [] f = "volumes" -> pod.Spec.Volumes.items
ProfileListOf(f) ==
    CASE f = "initContainers" -> config.InitContainers
      [] f = "containers" -> config.Containers
      [] f = "volumes" -> config.Volumes

IsBare(o, f) == o.path = <<"spec", f>>
IsAppend(o, f) == o.path = <<"spec", f, "-">>
InsertionOps(f) == SelectSeq(ThePatch, LAMBDA o : IsBare(o, f) \/ IsAppend(o, f))

IsWholeAdd(o, f, list) ==
    IsBare(o, f) /\ o.op = "add" /\ o.value.kind = "array" /\ o.value.items = list
IsAppendOf(o, f, x) ==
    IsAppend(o, f) /\ o.op = "add" /\ o.value.kind = "elem" /\ o.value.item = x

AppendsAll(f) ==
    LET ops == InsertionOps(f)
        list == ProfileListOf(f)
    IN  /\ Len(ops) = Len(list)
        /\ \A i \in 1..Len(list) : IsAppendOf(ops[i], f, list[i])

\* C4 as stated: on an empty target one add of the whole list and nothing
\* else; on a non-empty target one append per element, in order.
C4_WholeListOnEmptyTarget ==
    PatchReturned =>
        \A f \in ArrayFields :
            Len(ProfileListOf(f)) > 0 =>
                IF Len(ExistingOf(f)) = 0
                THEN /\ Len(InsertionOps(f)) = 1
                     /\ IsWholeAdd(InsertionOps(f)[1], f, ProfileListOf(f))
                ELSE AppendsAll(f)

\* C4 (amended): on an empty target the first element is added at the bare
\* path as a one-element list and each further element is appended at "/-",
\* in order; on a non-empty target one append per element, in order.
C4_FirstElementCreatesArray ==
    PatchReturned =>
        \A f \in ArrayFields :
            LET ops == InsertionOps(f)
                list == ProfileListOf(f)
            IN  Len(list) > 0 =>
                    IF Len(ExistingOf(f)) = 0
                    THEN /\ Len(ops) = Len(list)
                         /\ IsWholeAdd(ops[1], f, <<list[1]>>)
                         /\ \A i \in 2..Len(list) : IsAppendOf(ops[i], f, list[i])
                    ELSE AppendsAll(f)

C4_Witness ==
    /\ PatchReturned
    /\ Len(ExistingOf("containers")) = 0 /\ Len(ProfileListOf("containers")) = 2
    /\ Len(ExistingOf("volumes")) = 1 /\ Len(ProfileListOf("volumes")) = 2
    /\ Len(InsertionOps("containers")) = 2 /\ Len(InsertionOps("volumes")) = 2

\* The step of createPatch an operation belongs to, read off its path.
StepOf(o) ==
    LET p == o.path
    IN  CASE p[1] = "metadata" -> 6
          [] p[1] = "spec" /\ Len(p) >= 4 /\ p[4] = "volumeMounts" -> 1
          [] p[1] = "spec" /\ Len(p) >= 4 /\ p[4] = "env" -> 2
          [] p[1] = "spec" /\ Len(p) <= 3 /\ p[2] = "initContainers" -> 3
          [] p[1] = "spec" /\ Len(p) <= 3 /\ p[2] = "containers" -> 4
          [] p[1] = "spec" /\ Len(p) <= 3 /\ p[2] = "volumes" -> 5
          [] OTHER -> 0

\* The elements a sequence of operations carries, in order.
RECURSIVE Carried(_)
Carried(ops) ==
    IF ops = <<>> THEN <<>>
    ELSE (IF Head(ops).value.kind = "array" THEN Head(ops).value.items
          ELSE <<Head(ops).value.item>>) \o Carried(Tail(ops))

OpsOfStep(n) == SelectSeq(ThePatch, LAMBDA o : StepOf(o) = n)
OpsOfContainer(n, i) ==
    SelectSeq(ThePatch, LAMBDA o : StepOf(o) = n /\ o.path[3] = ToString(i))

SetsStatusInjected(o) ==
    \/ /\ o.value.kind = "map"
       /\ o.value.key = admissionWebhookAnnotationStatusKey /\ o.value.val = Injected
    \/ /\ o.value.kind = "string" /\ o.value.str = Injected

\* C7: the operations come in the order of the six steps, each step carries
\* the profile's elements in the profile's order, and the one operation that
\* sets the status annotation is the last of the patch.
C7_StepOrder ==
    PatchReturned =>
        LET n == Len(ThePatch)
        IN  /\ n >= 1
            /\ \A k \in 1..n : StepOf(ThePatch[k]) \in 1..6
            /\ \A k \in 1..(n - 1) : StepOf(ThePatch[k]) <= StepOf(ThePatch[k + 1])
            /\ StepOf(ThePatch[n]) = 6 /\ SetsStatusInjected(ThePatch[n])
            /\ \A k \in 1..(n - 1) : StepOf(ThePatch[k]) < 6
            /\ Carried(OpsOfStep(3)) = config.InitContainers
            /\ Carried(OpsOfStep(4)) = config.Containers
            /\ Carried(OpsOfStep(5)) = config.Volumes
            /\ \A i \in 0..(Len(pod.Spec.Containers.items) - 1) :
                  /\ Carried(OpsOfContainer(1, i)) = config.VolumeMounts
                  /\ Carried(OpsOfContainer(2, i)) = config.EnvVars

C7_Witness ==
    /\ PatchReturned
    /\ \A n \in 1..6 : Len(OpsOfStep(n)) >= 1
    /\ Len(pod.Spec.Containers.items) = 2
    /\ Len(config.Volumes) = 2

\* C8: a pod outside the ignored namespaces, not marked injected, whose
\* inject-request value is no key of the registry is allowed without a patch;
\* and the registry is not indexed when mutationRequired answered false.
C8_UnknownProfileAllowed ==
    /\ (Returned /\ Decoded /\ ~InIgnoredNamespace(raw) /\ ~MarkedInjected(raw)
        /\ RequestsProfile(raw) /\ RequestedProfile(raw) \notin DOMAIN registry)
            => AllowNoPatch
    /\ (pc \notin {"recv", "policy"} /\ ~required) => lookups = {}

C8_Witness ==
    /\ pc = "done" /\ Decoded
    /\ raw.metadata.namespace = "default"
    /\ RequestsProfile(raw) /\ RequestedProfile(raw) = WebCapital
    /\ Web \in DOMAIN registry /\ WebCapital \notin DOMAIN registry
    /\ lookups = {WebCapital}
    /\ AllowNoPatch

C8_WitnessEmptyName ==
    /\ pc = "done" /\ Decoded
    /\ raw.metadata.namespace = "default"
    /\ RequestsProfile(raw) /\ RequestedProfile(raw) = EmptyString
    /\ EmptyString \notin DOMAIN registry
    /\ AllowNoPatch

\* C9 as stated: a response that is not Allowed comes only from a failure to
\* serialize the patch.
C9_DeniedOnlyOnSerializationFailure ==
    (Returned /\ Denied) => fault = "marshal"

\* C9 (amended): a response that is not Allowed comes only from a failure to
\* decode the submitted object or to serialize the patch; every policy
\* outcome is allowed without a patch, and without a fault every outcome is
\* Allowed.
C9_DeniedOnlyOnInternalFault ==
    /\ (Returned /\ Denied) =>
           \/ fault = "unmarshal"
           \/ fault = "marshal" /\ required /\ mut \in DOMAIN registry
    /\ (Returned /\ Decoded /\ (~required \/ mut \notin DOMAIN registry)) => AllowNoPatch
    /\ (Returned /\ fault = "none") => (AllowNoPatch \/ AllowWithPatch)

C9_Witness ==
    /\ pc = "done" /\ fault = "marshal" /\ Denied /\ response.HasResult
    /\ required /\ mut \in DOMAIN registry

C9_WitnessMissingProfile ==
    /\ pc = "done" /\ fault = "marshal" /\ required /\ mut \notin DOMAIN registry
    /\ AllowNoPatch

\* The positions of the patch that address the env member of container i.
EnvPositions(i) ==
    {k \in 1..Len(ThePatch) :
        LET p == ThePatch[k].path
        IN  Len(p) >= 4 /\ p[1] = "spec" /\ p[2] = "containers"
            /\ p[3] = ToString(i) /\ p[4] = "env"}
AnyEnvPositions ==
    {k \in 1..Len(ThePatch) :
        LET p == ThePatch[k].path
        IN  Len(p) >= 4 /\ p[1] = "spec" /\ p[2] = "containers" /\ p[4] = "env"}
IsEnvGuard(o, i) ==
    /\ o.op = "add" /\ o.path = <<"spec", "containers", ToString(i), "env">>
    /\ o.value.kind = "array" /\ o.value.items = <<>>
IsEnvAppend(o, i, x) ==
    /\ o.op = "add" /\ o.path = <<"spec", "containers", ToString(i), "env", "-">>
    /\ o.value.kind = "elem" /\ o.value.item = x
Lowest(S) == CHOOSE k \in S : \A j \in S : k <= j
Highest(S) == CHOOSE k \in S : \A j \in S : k >= j

\* C10: with no env vars in the profile the patch has no operation on any
\* container's env; otherwise, container by container in pod order, an add of
\* an empty list at .../env exactly when the container has no env, directly
\* followed by one append at .../env/- per variable in the profile's order.
C10_EnvStep ==
    PatchReturned =>
        LET cs == pod.Spec.Containers.items
            vars_ == config.EnvVars
        IN  IF Len(vars_) = 0
            THEN AnyEnvPositions = {}
            ELSE /\ \A k \in AnyEnvPositions : \E i \in 0..(Len(cs) - 1) : k \in EnvPositions(i)
                 /\ \A i \in 0..(Len(cs) - 1) :
                       LET pos == EnvPositions(i)
                           g == IF cs[i + 1].Env.isNil THEN 1 ELSE 0
                           first == Lowest(pos)
                       IN  /\ Cardinality(pos) = g + Len(vars_)
                           /\ pos = first..(first + g + Len(vars_) - 1)
                           /\ (g = 1) => IsEnvGuard(ThePatch[first], i)
                           /\ \A j \in 1..Len(vars_) :
                                 IsEnvAppend(ThePatch[first + g + j - 1], i, vars_[j])
                 /\ \A i \in 0..(Len(cs) - 2) :
                       Highest(EnvPositions(i)) < Lowest(EnvPositions(i + 1))

C10_Witness ==
    /\ PatchReturned
    /\ Len(pod.Spec.Containers.items) = 2
    /\ pod.Spec.Containers.items[1].Env.isNil
    /\ ~pod.Spec.Containers.items[2].Env.isNil
    /\ Len(config.EnvVars) = 2
    /\ Cardinality(AnyEnvPositions) = 5

C10_WitnessNoEnvVars ==
    /\ PatchReturned
    /\ Len(pod.Spec.Containers.items) = 2
    /\ pod.Spec.Containers.items[1].Env.isNil
    /\ Len(config.EnvVars) = 0
    /\ Len(config.VolumeMounts) = 2
    /\ AnyEnvPositions = {}

EmptyProfileSelected ==
    /\ PatchReturned
    /\ Len(config.InitContainers) = 0 /\ Len(config.Containers) = 0
    /\ Len(config.Volumes) = 0 /\ Len(config.EnvVars) = 0 /\ Len(config.VolumeMounts) = 0

\* C11 as stated: the patch generated for a profile whose five lists are all
\* empty contains no operation.
C11_EmptyProfileEmptyPatch ==
    EmptyProfileSelected => Len(ThePatch) = 0

\* C11 (amended): the patch generated for a profile whose five lists are all
\* empty contains exactly one operation, the one that sets the status
\* annotation to "injected".
C11_EmptyProfileOnlyBookkeeping ==
    EmptyProfileSelected =>
        /\ Len(ThePatch) = 1
        /\ ThePatch[1].path[1] = "metadata" /\ ThePatch[1].path[2] = "annotations"
        /\ SetsStatusInjected(ThePatch[1])

C11_Witness ==
    /\ EmptyProfileSelected
    /\ Len(pod.Spec.Containers.items) = 2
    /\ pod.Spec.Containers.items[1].Env.isNil
    /\ pod.Spec.InitContainers.isNil
    /\ Len(ThePatch) = 1

\* mutationRequired has answered for the submitted pod.
Evaluated == pc \in {"lookup", "patch", "done", "applied"} /\ Decoded

\* C12: outside the ignored namespaces and without an "injected" status,
\* required is true exactly when the inject-request key is present, with any
\* value, and then the profile key is that value; without the key, or without
\* annotations at all, required is false.  A pod without annotations in
\* namespace default is allowed on an empty registry.
C12_RequiredIffInjectKeyPresent ==
    /\ (Evaluated /\ ~InIgnoredNamespace(raw) /\ ~MarkedInjected(raw)) =>
           /\ required <=> RequestsProfile(raw)
           /\ required => mut = RequestedProfile(raw)
    /\ (Evaluated /\ ~raw.metadata.annotations.present) => ~required
    /\ (Returned /\ Decoded /\ ~raw.metadata.annotations.present
        /\ raw.metadata.namespace = "default" /\ DOMAIN registry = {}) => AllowNoPatch

C12_Witness ==
    /\ pc = "lookup" /\ Decoded
    /\ raw.metadata.namespace = "default"
    /\ HasAnnotation(raw, admissionWebhookAnnotationStatusKey)
    /\ AnnotationOf(raw, admissionWebhookAnnotationStatusKey) = Pending
    /\ RequestsProfile(raw) /\ RequestedProfile(raw) = EmptyString
    /\ required /\ mut = EmptyString

C12_WitnessNoAnnotations ==
    /\ pc = "done" /\ Decoded
    /\ ~raw.metadata.annotations.present
    /\ raw.metadata.namespace = "default" /\ DOMAIN registry = {}
    /\ ~required /\ AllowNoPatch

BookkeepingOps == SelectSeq(ThePatch, LAMBDA o : o.path[1] = "metadata")

HoldsNonEmptyStatus(d) ==
    /\ HasAnnotation(d, admissionWebhookAnnotationStatusKey)
    /\ AnnotationOf(d, admissionWebhookAnnotationStatusKey) # EmptyString

IsStatusAdd(o) ==
    /\ o.op = "add" /\ o.path = <<"metadata", "annotations">>
    /\ o.value.kind = "map"
    /\ o.value.key = admissionWebhookAnnotationStatusKey /\ o.value.val = Injected

\* The path string "/metadata/annotations/simple-sidecar.cemtml.ai/status"
IsStatusReplace(o) ==
    /\ o.op = "replace"
    /\ o.path = <<"metadata", "annotations", "simple-sidecar.cemtml.ai", "status">>
    /\ o.value.kind = "string" /\ o.value.str = Injected

OnlyRequestsWithOneContainer ==
    /\ PatchReturned
    /\ raw.metadata.annotations.present
    /\ DOMAIN raw.metadata.annotations.m = {admissionWebhookAnnotationInjectKey}
    /\ Len(raw.spec.containers.items) = 0
    /\ Len(config.Containers) = 1
    /\ Len(config.InitContainers) = 0 /\ Len(config.Volumes) = 0
    /\ Len(config.EnvVars) = 0 /\ Len(config.VolumeMounts) = 0

\* C13: the patch holds exactly one bookkeeping operation: an add of the
\* one-entry mapping {status: injected} at /metadata/annotations when the pod
\* has no annotations or no non-empty status value, else a replace of the
\* value at /metadata/annotations/<status key>.  For a pod that only requests
\* a profile of one container and has no container, the patch is the add of
\* the container list followed by that add.
C13_BookkeepingOperation ==
    /\ PatchReturned =>
           /\ Len(BookkeepingOps) = 1
           /\ IF HoldsNonEmptyStatus(raw)
              THEN IsStatusReplace(BookkeepingOps[1])
              ELSE IsStatusAdd(BookkeepingOps[1])
    /\ OnlyRequestsWithOneContainer =>
           /\ Len(ThePatch) = 2
           /\ IsWholeAdd(ThePatch[1], "containers", config.Containers)
           /\ IsStatusAdd(ThePatch[2])

C13_Witness ==
    /\ PatchReturned
    /\ HasAnnotation(raw, admissionWebhookAnnotationStatusKey)
    /\ AnnotationOf(raw, admissionWebhookAnnotationStatusKey) = EmptyString
    /\ IsStatusAdd(BookkeepingOps[1])

C13_WitnessReplace ==
    /\ PatchReturned /\ HoldsNonEmptyStatus(raw) /\ IsStatusReplace(BookkeepingOps[1])

C13_WitnessScenario ==
    OnlyRequestsWithOneContainer /\ Len(ThePatch) = 2

IsMountAppendPath(p) ==
    /\ Len(p) = 5 /\ p[1] = "spec" /\ p[2] = "containers"
    /\ p[4] = "volumeMounts" /\ p[5] = "-"
MountOps == SelectSeq(ThePatch, LAMBDA o : IsMountAppendPath(o.path))
ContainerMemberOps == SelectSeq(ThePatch, LAMBDA o : Len(o.path) >= 4 /\ o.path[1] = "spec")

\* C14: the patch holds (containers of the pod) x (mounts of the profile)
\* adds at /spec/containers/<i>/volumeMounts/-, all mounts of container 0
\* first, then of container 1, ..., mounts in profile order; every container
\* index of the patch is below the pod's container count, and the containers
\* the patch injects end up without the profile's mounts and env vars.
C14_VolumeMountStep ==
    /\ PatchReturned =>
           LET n == Len(pod.Spec.Containers.items)
               m == Len(config.VolumeMounts)
           IN  /\ Len(MountOps) = n * m
               /\ \A i \in 0..(n - 1) : \A j \in 1..m :
                     LET o == MountOps[i * m + j]
                     IN  /\ o.op = "add" /\ o.path[3] = ToString(i)
                         /\ o.value.kind = "elem" /\ o.value.item = config.VolumeMounts[j]
               /\ \A k \in 1..Len(ContainerMemberOps) :
                     \E i \in 0..(n - 1) : ContainerMemberOps[k].path[3] = ToString(i)
    /\ (pc = "applied" /\ applyOk) =>
           LET n == Len(raw.spec.containers.items)
               after == doc.spec.containers.items
           IN  /\ Len(after) = n + Len(config.Containers)
               /\ \A x \in (n + 1)..Len(after) :
                     ~after[x].env.present /\ ~after[x].volumeMounts.present

C14_Witness ==
    /\ pc = "applied" /\ applyOk
    /\ Len(raw.spec.containers.items) = 2
    /\ Len(config.VolumeMounts) = 2 /\ Len(config.EnvVars) = 2
    /\ Len(config.Containers) = 2
    /\ Len(MountOps) = 4
    /\ Len(doc.spec.containers.items) = 4

\* The array of target f after the patch's operations for f alone were
\* applied, in order, to the submitted pod.
InsertedInto(f) == ApplyPrefix(raw, InsertionOps(f), Len(InsertionOps(f)))

\* C16: for each of initContainers, containers and volumes, the patch's
\* operations for that target, applied in order, leave the existing elements
\* unchanged and in place, followed by the profile's elements in declared
\* order, none lost and none twice.
C16_InsertionNetEffect ==
    PatchReturned =>
        \A f \in ArrayFields :
            LET list == ProfileListOf(f)
            IN  /\ InsertedInto(f).ok
                /\ InsertedInto(f).doc.spec[f].items =
                      raw.spec[f].items \o [i \in 1..Len(list) |-> DocElem(f, list[i])]

C16_Witness ==
    /\ PatchReturned
    /\ Len(raw.spec.volumes.items) = 0 /\ Len(config.Volumes) = 2
    /\ Len(raw.spec.containers.items) = 2 /\ Len(config.Containers) = 2
    /\ Len(InsertedInto("volumes").doc.spec.volumes.items) = 2
    /\ Len(InsertedInto("containers").doc.spec.containers.items) = 4


(***************************************************************************)
(* C15                                                                     *)
(***************************************************************************)
PeerReturned == peer.pc = "done"

PeerDecoded == peer.pc \in {"policy", "lookup", "patch"} \/ (PeerReturned /\ peer.fault # "unmarshal")

\* Each call's pod is the one decoded from its own request, and a call that
\* has returned returned what mutate returns when run alone on that request.
OutcomesAsAlone ==
    /\ (pc \in {"policy", "lookup", "patch"} \/ (pc \in {"done", "applied"} /\ fault # "unmarshal"))
          => pod = Unmarshal(raw)
    /\ pc \in {"done", "applied"} => response = mutate(raw, registry, fault)
    /\ PeerDecoded => peer.pod = Unmarshal(peer.raw)
    /\ PeerReturned => peer.response = mutate(peer.raw, registry, peer.fault)

\* No step of either call writes the registry or a request; a request changes
\* only when the patched pod is submitted anew.
SharedStateUntouched ==
    /\ registry' = registry
    /\ peer'.raw = peer.raw
    /\ raw' # raw => (pc = "applied" /\ pc' = "recv" /\ raw' = doc)

\* C15: mutate is stateless per invocation: a call never modifies its pod
\* (annotations included), the registry sidecarConfigs or ignoredNamespaces,
\* so under every interleaving of two concurrent calls each call returns the
\* outcome it returns when run alone, and the registry stays as it was.
C15_StatelessPerInvocation ==
    /\ []OutcomesAsAlone
    /\ [][SharedStateUntouched]_vars

\* Both calls, on different requests, have returned: one with a patch, the
\* other admitted unchanged after looking up a profile the registry lacks.
C15_Witness ==
    /\ pc = "done" /\ round = 1
    /\ PeerReturned
    /\ response.HasPatch
    /\ ~peer.response.HasPatch
    /\ peer.lookups # {}
    /\ peer.raw # raw

====
